---- MODULE Spec2Model ----
(***************************************************************************)
(* Mergington High School activities API: the three request handlers of    *)
(* app.py (get_activities, signup_for_activity, unregister_from_activity)  *)
(* running as concurrent coroutines over the MongoDB collection            *)
(* school_activities.activities, seeded by init_db.py.                     *)
(*                                                                         *)
(* Every await on the store is one atomic step: find_one / find reads the  *)
(* collection, update_one applies its update operator to the matched       *)
(* document.  Between the find_one and the update_one of one request any   *)
(* step of any other request may happen.                                   *)
(***************************************************************************)
EXTENDS Integers, Sequences, FiniteSets, TLC

(***************************************************************************)
(* Bounds of the model.                                                    *)
(***************************************************************************)
\* No sign-up is accepted for a list that would grow beyond this length.
MaxLen == 3
\* How many times init_db is run again on the seeded collection.
MaxSeedRuns == 1

\* The request slots: two handlers may be in flight at the same time, and a
\* slot whose handler has returned takes the next request, without end.
Requests == {1, 2}

(***************************************************************************)
(* init_db.py: the fixed dataset, in insertion (dict) order.               *)
(***************************************************************************)
ActivityOrder ==
    << "Chess Club", "Programming Class", "Gym Class", "Soccer Team",
       "Basketball Club", "Drama Club", "Art Workshop", "Math Olympiad",
       "Science Club" >>

activities ==
    [n \in {ActivityOrder[i] : i \in 1..Len(ActivityOrder)} |->
       CASE n = "Chess Club" ->
              [description |-> "Learn strategies and compete in chess tournaments",
               schedule |-> "Fridays, 3:30 PM - 5:00 PM",
               max_participants |-> 12,
               participants |-> <<"michael@mergington.edu", "daniel@mergington.edu">>]
         [] n = "Programming Class" ->
              [description |-> "Learn programming fundamentals and build software projects",
               schedule |-> "Tuesdays and Thursdays, 3:30 PM - 4:30 PM",
               max_participants |-> 20,
               participants |-> <<"emma@mergington.edu", "sophia@mergington.edu">>]
         [] n = "Gym Class" ->
              [description |-> "Physical education and sports activities",
               schedule |-> "Mondays, Wednesdays, Fridays, 2:00 PM - 3:00 PM",
               max_participants |-> 30,
               participants |-> <<"john@mergington.edu", "olivia@mergington.edu">>]
         [] n = "Soccer Team" ->
              [description |-> "Join the school soccer team and compete in local leagues",
               schedule |-> "Tuesdays and Thursdays, 4:00 PM - 5:30 PM",
               max_participants |-> 18,
               participants |-> <<"lucas@mergington.edu", "mia@mergington.edu">>]
         [] n = "Basketball Club" ->
              [description |-> "Practice basketball skills and play friendly matches",
               schedule |-> "Wednesdays, 3:30 PM - 5:00 PM",
               max_participants |-> 15,
               participants |-> <<"liam@mergington.edu", "ava@mergington.edu">>]
         [] n = "Drama Club" ->
              [description |-> "Participate in school plays and improve acting skills",
               schedule |-> "Mondays, 4:00 PM - 5:30 PM",
               max_participants |-> 20,
               participants |-> <<"noah@mergington.edu", "isabella@mergington.edu">>]
         [] n = "Art Workshop" ->
              [description |-> "Explore painting, drawing, and other visual arts",
               schedule |-> "Thursdays, 3:30 PM - 5:00 PM",
               max_participants |-> 16,
               participants |-> <<"amelia@mergington.edu", "benjamin@mergington.edu">>]
         [] n = "Math Olympiad" ->
              [description |-> "Prepare for math competitions and solve challenging problems",
               schedule |-> "Fridays, 2:00 PM - 3:30 PM",
               max_participants |-> 10,
               participants |-> <<"charlotte@mergington.edu", "jack@mergington.edu">>]
         [] n = "Science Club" ->
              [description |-> "Conduct experiments and explore scientific concepts",
               schedule |-> "Wednesdays, 4:00 PM - 5:00 PM",
               max_participants |-> 14,
               participants |-> <<"harper@mergington.edu", "elijah@mergington.edu">>]]

\* The document init_db inserts for the i-th activity of the dataset:
\* details.copy() with the name added; the store assigns the _id.
activity_doc(i) ==
    LET name == ActivityOrder[i]
        details == activities[name]
    IN  [_id |-> i,
         name |-> name,
         description |-> details.description,
         schedule |-> details.schedule,
         max_participants |-> details.max_participants,
         participants |-> details.participants]

\* The collection after init_db has run to completion on any collection:
\* drop(), then one insert_one per activity of the dataset.
init_db == {activity_doc(i) : i \in 1..Len(ActivityOrder)}

(***************************************************************************)
(* Inputs of the requests: the path parameter activity_name and the query  *)
(* parameter email are unvalidated strings.  Two names that exist, one     *)
(* that matches no document; a seeded email and a new one.                 *)
(***************************************************************************)
ActivityNames == {"Chess Club", "Programming Class", "Knitting Circle"}
Emails == {"michael@mergington.edu", "new@mergington.edu"}

(***************************************************************************)
(* State.                                                                  *)
(*   db             the documents of collection activities                 *)
(*   pc             where each request slot is: "idle" (no request),       *)
(*                  "update" (find_one done, checks passed, update_one     *)
(*                  awaited), "done" (response sent)                       *)
(*   op             the endpoint of the request in the slot                *)
(*   activity_name, email   its parameters                                 *)
(*   activity       the handler's local: the document find_one returned    *)
(*   result         the modified_count of its update_one (None if none     *)
(*                  was issued)                                            *)
(*   status, body   the response: HTTP status code and JSON body           *)
(*   name_index     whether the unique index on name exists                *)
(*   seed_pc        where the init_db script is: "idle" (not running),     *)
(*                  "drop", "insert", "index" (the call awaited next),     *)
(*                  "failed" (it raised)                                   *)
(*   seed_i         the activity its loop inserts next                     *)
(*   seed_runs      how many times it was started on the seeded collection *)
(***************************************************************************)
VARIABLES db, pc, op, activity_name, email, activity, result, status, body,
          name_index, seed_pc, seed_i, seed_runs

\* The state of init_db and of the index it creates; no handler touches it.
seeding == <<name_index, seed_pc, seed_i, seed_runs>>

vars == <<db, pc, op, activity_name, email, activity, result, status, body,
          name_index, seed_pc, seed_i, seed_runs>>

\* Python's None, for a local that holds no document, no result or no body.
None == [none |-> TRUE]

(***************************************************************************)
(* The store operations the handlers call.                                 *)
(***************************************************************************)
\* The empty filter {}, which every document matches.
matches_all(doc, name) == TRUE

\* The filter {'name': activity_name}.
Matches(doc, name) == doc.name = name

\* find_one({'name': activity_name}): a matching document, or None.
find_one(name) ==
    IF \E d \in db : Matches(d, name)
      THEN CHOOSE d \in db : Matches(d, name)
      ELSE None

\* Variants of $push a slip would produce: $push with $position 0, $set of
\* a one-element list, $addToSet.
push_front(participants, e) == <<e>> \o participants
set_single(participants, e) == <<e>>
add_to_set(participants, e) ==
    IF \E i \in 1..Len(participants) : participants[i] = e
      THEN participants
      ELSE Append(participants, e)

\* The update operator {'$push': {'participants': email}}: appends the
\* value at the end of the array, present or not.
Push(participants, e) == Append(participants, e)

\* Variants of $pull a slip would produce: $pop of the last element, $pop
\* of the first element.
pop_last(participants, e) ==
    IF participants = <<>> THEN participants
    ELSE SubSeq(participants, 1, Len(participants) - 1)
pop_first(participants, e) ==
    IF participants = <<>> THEN participants ELSE Tail(participants)

\* Python's list.remove(e): only the first matching element goes.
remove_first(participants, e) ==
    IF \E i \in 1..Len(participants) : participants[i] = e
      THEN LET i == CHOOSE k \in 1..Len(participants) :
                      /\ participants[k] = e
                      /\ \A j \in 1..(k - 1) : participants[j] # e
           IN  SubSeq(participants, 1, i - 1) \o
               SubSeq(participants, i + 1, Len(participants))
      ELSE participants

\* The update operator {'$pull': {'participants': email}}: removes every
\* element of the array that equals the value.
Pull(participants, e) == SelectSeq(participants, LAMBDA x : x # e)

\* The update document {operator: {'participants': email}} applied to the
\* array of a document.
apply_update(operator, participants, e) ==
    IF operator = "$push" THEN Push(participants, e) ELSE Pull(participants, e)

\* update_one({'name': activity_name}, update): the update is applied to the
\* first matching document, atomically, on the document as it is stored at
\* that moment.  modified_count is 1 when a document matched and the update
\* changed it, 0 otherwise.
update_one(name, operator, e) ==
    IF \E d \in db : Matches(d, name)
      THEN LET old == CHOOSE d \in db : Matches(d, name)
               new == [old EXCEPT !.participants =
                                     apply_update(operator, old.participants, e)]
           IN  [db |-> (db \ {old}) \cup {new},
                modified_count |-> IF new # old THEN 1 ELSE 0]
      ELSE [db |-> db, modified_count |-> 0]

\* The same with find({}) and no projection: the _id stays in each value.
activities_dict_with_id(docs) ==
    [n \in {d.name : d \in docs} |->
       LET d == CHOOSE x \in docs : x.name = n
       IN  [_id |-> d._id,
            description |-> d.description,
            schedule |-> d.schedule,
            max_participants |-> d.max_participants,
            participants |-> d.participants]]

\* find({}, {'_id': 0}) followed by the dict comprehension of get_activities:
\* keyed by the popped name, each value is the rest of the document.
activities_dict(docs) ==
    [n \in {d.name : d \in docs} |->
       LET d == CHOOSE x \in docs : x.name = n
       IN  [description |-> d.description,
            schedule |-> d.schedule,
            max_participants |-> d.max_participants,
            participants |-> d.participants]]

(***************************************************************************)
(* The checks of the handlers.                                             *)
(***************************************************************************)
\* `email in activity['participants']`
IsParticipant(e, doc) ==
    \E i \in 1..Len(doc.participants) : doc.participants[i] = e

\* Variants of the checks with one of the two tests left out (a missing
\* `if not activity` makes the subscript of None raise, a 500).
signup_check_no_conflict(doc, e) ==
    IF doc = None THEN 404 ELSE 0
unregister_check_no_membership(doc, e) ==
    IF doc = None THEN 404 ELSE 0
unregister_check_no_lookup(doc, e) ==
    IF doc = None THEN 500
    ELSE IF ~IsParticipant(e, doc) THEN 400
    ELSE 0

\* The sign-up checks with a capacity test added after the membership test.
signup_check_capacity(doc, e) ==
    IF doc = None THEN 404
    ELSE IF IsParticipant(e, doc) THEN 400
    ELSE IF Len(doc.participants) >= doc.max_participants THEN 400
    ELSE 0

\* `if not activity` / `if email in activity['participants']` of
\* signup_for_activity: the status the handler raises after the read, or 0
\* when it goes on to the update.
signup_check(doc, e) ==
    IF doc = None THEN 404
    ELSE IF IsParticipant(e, doc) THEN 400
    ELSE 0

\* The same for unregister_from_activity.
unregister_check(doc, e) ==
    IF doc = None THEN 404
    ELSE IF ~IsParticipant(e, doc) THEN 400
    ELSE 0

\* The response without the test of modified_count.
always_ok(modified_count) == 200

\* `if result.modified_count == 1: return ... else: raise HTTPException(500)`
update_status(modified_count) == IF modified_count = 1 THEN 200 ELSE 500

signup_detail(code) ==
    IF code = 404 THEN [detail |-> "Activity not found"]
    ELSE IF code = 400 THEN [detail |-> "Student already signed up"]
    ELSE [detail |-> "Failed to sign up student"]

unregister_detail(code) ==
    IF code = 404 THEN [detail |-> "Activity not found"]
    ELSE IF code = 400 THEN [detail |-> "Student is not registered for this activity"]
    ELSE [detail |-> "Failed to remove student"]

(***************************************************************************)
(* Initial state: the collection as init_db leaves it, no request running. *)
(***************************************************************************)
Init ==
    /\ db = init_db
    /\ pc = [r \in Requests |-> "idle"]
    /\ op = [r \in Requests |-> "none"]
    /\ activity_name = [r \in Requests |-> ""]
    /\ email = [r \in Requests |-> ""]
    /\ activity = [r \in Requests |-> None]
    /\ result = [r \in Requests |-> None]
    /\ status = [r \in Requests |-> 0]
    /\ body = [r \in Requests |-> None]
    /\ name_index = TRUE
    /\ seed_pc = "idle"
    /\ seed_i = 0
    /\ seed_runs = 0

\* Sign-ups that passed their checks and whose $push is still to come.
PendingPushes(name) ==
    {q \in Requests : pc[q] = "update" /\ op[q] = "signup" /\ activity_name[q] = name}

\* A sign-up that will push is taken up only while the list, with the pushes
\* already under way, stays within MaxLen.
WithinBound(name, e) ==
    LET doc == find_one(name)
    IN  signup_check(doc, e) = 0 =>
          Len(doc.participants) + Cardinality(PendingPushes(name)) < MaxLen

(***************************************************************************)
(* GET /activities                                                         *)
(***************************************************************************)
get_activities(r) ==
    /\ pc[r] = "idle"
    /\ pc' = [pc EXCEPT ![r] = "done"]
    /\ op' = [op EXCEPT ![r] = "list"]
    /\ status' = [status EXCEPT ![r] = 200]
    /\ body' = [body EXCEPT ![r] = activities_dict(db)]
    /\ UNCHANGED <<db, activity_name, email, activity, result>>
    /\ UNCHANGED seeding

(***************************************************************************)
(* POST /activities/{activity_name}/signup                                 *)
(***************************************************************************)
\* Lines 53-59: the read and the two checks.
signup_find(r, name, e) ==
    LET doc == find_one(name)
        code == signup_check(doc, e)
    IN  /\ pc[r] = "idle"
        /\ op' = [op EXCEPT ![r] = "signup"]
        /\ activity_name' = [activity_name EXCEPT ![r] = name]
        /\ email' = [email EXCEPT ![r] = e]
        /\ activity' = [activity EXCEPT ![r] = doc]
        /\ IF code = 0
             THEN /\ pc' = [pc EXCEPT ![r] = "update"]
                  /\ UNCHANGED <<status, body>>
             ELSE /\ pc' = [pc EXCEPT ![r] = "done"]
                  /\ status' = [status EXCEPT ![r] = code]
                  /\ body' = [body EXCEPT ![r] = signup_detail(code)]
        /\ UNCHANGED <<db, result>>
        /\ UNCHANGED seeding

\* The same step, taken up only within the bound of the model.
signup_request(r, name, e) ==
    /\ WithinBound(name, e)
    /\ signup_find(r, name, e)

\* Lines 62-70: the $push and the response.
signup_update(r) ==
    LET res == update_one(activity_name[r], "$push", email[r])
        code == update_status(res.modified_count)
    IN  /\ pc[r] = "update"
        /\ op[r] = "signup"
        /\ db' = res.db
        /\ result' = [result EXCEPT ![r] = [modified_count |-> res.modified_count]]
        /\ pc' = [pc EXCEPT ![r] = "done"]
        /\ status' = [status EXCEPT ![r] = code]
        /\ body' = [body EXCEPT ![r] =
                      IF code = 200
                        THEN [message |-> <<"Signed up", email[r], "for", activity_name[r]>>]
                        ELSE signup_detail(code)]
        /\ UNCHANGED <<op, activity_name, email, activity>>
        /\ UNCHANGED seeding

(***************************************************************************)
(* POST /activities/{activity_name}/unregister                             *)
(***************************************************************************)
\* Lines 76-81: the read and the two checks.
unregister_find(r, name, e) ==
    LET doc == find_one(name)
        code == unregister_check(doc, e)
    IN  /\ pc[r] = "idle"
        /\ op' = [op EXCEPT ![r] = "unregister"]
        /\ activity_name' = [activity_name EXCEPT ![r] = name]
        /\ email' = [email EXCEPT ![r] = e]
        /\ activity' = [activity EXCEPT ![r] = doc]
        /\ IF code = 0
             THEN /\ pc' = [pc EXCEPT ![r] = "update"]
                  /\ UNCHANGED <<status, body>>
             ELSE /\ pc' = [pc EXCEPT ![r] = "done"]
                  /\ status' = [status EXCEPT ![r] = code]
                  /\ body' = [body EXCEPT ![r] = unregister_detail(code)]
        /\ UNCHANGED <<db, result>>
        /\ UNCHANGED seeding

\* Lines 84-92: the $pull and the response.
unregister_update(r) ==
    LET res == update_one(activity_name[r], "$pull", email[r])
        code == update_status(res.modified_count)
    IN  /\ pc[r] = "update"
        /\ op[r] = "unregister"
        /\ db' = res.db
        /\ result' = [result EXCEPT ![r] = [modified_count |-> res.modified_count]]
        /\ pc' = [pc EXCEPT ![r] = "done"]
        /\ status' = [status EXCEPT ![r] = code]
        /\ body' = [body EXCEPT ![r] =
                      IF code = 200
                        THEN [message |-> <<"Removed", email[r], "from", activity_name[r]>>]
                        ELSE unregister_detail(code)]
        /\ UNCHANGED <<op, activity_name, email, activity>>
        /\ UNCHANGED seeding

(***************************************************************************)
(* The handler has returned (or raised) and its response is delivered: the *)
(* slot is free for the next request.                                      *)
(***************************************************************************)
handler_return(r) ==
    /\ pc[r] = "done"
    /\ pc' = [pc EXCEPT ![r] = "idle"]
    /\ op' = [op EXCEPT ![r] = "none"]
    /\ activity_name' = [activity_name EXCEPT ![r] = ""]
    /\ email' = [email EXCEPT ![r] = ""]
    /\ activity' = [activity EXCEPT ![r] = None]
    /\ result' = [result EXCEPT ![r] = None]
    /\ status' = [status EXCEPT ![r] = 0]
    /\ body' = [body EXCEPT ![r] = None]
    /\ UNCHANGED db
    /\ UNCHANGED seeding

Next ==
    \/ \E r \in Requests : get_activities(r)
    \/ \E r \in Requests, name \in ActivityNames, e \in Emails : signup_request(r, name, e)
    \/ \E r \in Requests : signup_update(r)
    \/ \E r \in Requests, name \in ActivityNames, e \in Emails : unregister_find(r, name, e)
    \/ \E r \in Requests : unregister_update(r)
    \/ \E r \in Requests : handler_return(r)

Spec == Init /\ [][Next]_vars

(***************************************************************************)
(* Two sign-up requests and nothing else: each slot takes one request, by  *)
(* any interleaving of the two reads and the two writes.                   *)
(***************************************************************************)
NextSignups ==
    \/ \E r \in Requests, name \in ActivityNames, e \in Emails : signup_find(r, name, e)
    \/ \E r \in Requests : signup_update(r)

SpecSignups == Init /\ [][NextSignups]_vars

(***************************************************************************)
(* init_db.py run again, as a script of its own on the same collection:    *)
(* every await is one step.                                                *)
(***************************************************************************)
\* drop() leaving the documents in place.
keep_collection(docs) == docs

\* db.activities.drop(): no document is left (nor any index).
drop(docs) == {}

\* The document of the i-th activity as the run-th run inserts it: the store
\* gives every inserted document a fresh _id.
inserted_doc(run, i) ==
    [activity_doc(i) EXCEPT !._id = run * Len(ActivityOrder) + i]

\* insert_one raises DuplicateKeyError when the unique index exists and a
\* document of that name is stored.
DuplicateKey(doc) ==
    name_index /\ \E d \in db : d.name = doc.name

\* The script is started.
seed_start ==
    /\ seed_pc = "idle"
    /\ seed_runs < MaxSeedRuns
    /\ seed_pc' = "drop"
    /\ seed_runs' = seed_runs + 1
    /\ UNCHANGED <<db, pc, op, activity_name, email, activity, result, status, body,
                   name_index, seed_i>>

\* Line 68: await db.activities.drop()
seed_drop ==
    /\ seed_pc = "drop"
    /\ db' = drop(db)
    /\ name_index' = FALSE
    /\ seed_pc' = "insert"
    /\ seed_i' = 1
    /\ UNCHANGED <<pc, op, activity_name, email, activity, result, status, body,
                   seed_runs>>

\* Lines 71-75: one turn of the loop, await db.activities.insert_one(activity_doc)
seed_insert ==
    LET doc == inserted_doc(seed_runs, seed_i)
    IN  /\ seed_pc = "insert"
        /\ seed_i <= Len(ActivityOrder)
        /\ IF DuplicateKey(doc)
             THEN /\ seed_pc' = "failed"
                  /\ UNCHANGED <<db, seed_i>>
             ELSE /\ db' = db \cup {doc}
                  /\ seed_i' = seed_i + 1
                  /\ seed_pc' = IF seed_i = Len(ActivityOrder) THEN "index" ELSE "insert"
        /\ UNCHANGED <<pc, op, activity_name, email, activity, result, status, body,
                       name_index, seed_runs>>

\* Lines 78-80: await db.activities.create_index('name', unique=True), which
\* raises when two documents have the same name; then the script ends.
seed_create_index ==
    /\ seed_pc = "index"
    /\ IF \E d1, d2 \in db : d1 # d2 /\ d1.name = d2.name
         THEN /\ seed_pc' = "failed"
              /\ UNCHANGED name_index
         ELSE /\ seed_pc' = "idle"
              /\ name_index' = TRUE
    /\ UNCHANGED <<db, pc, op, activity_name, email, activity, result, status, body,
                   seed_i, seed_runs>>

\* The two sign-up requests of NextSignups together with init_db: any step
\* of the script may come between the read and the write of a request, and
\* any step of a request between two steps of the script.
NextSeed ==
    \/ \E r \in Requests, name \in ActivityNames, e \in Emails : signup_find(r, name, e)
    \/ \E r \in Requests : signup_update(r)
    \/ seed_start
    \/ seed_drop
    \/ seed_insert
    \/ seed_create_index

SpecSeed == Init /\ [][NextSeed]_vars

\* The same with init_db run as the initialization it is: no request takes a
\* step from the start of the script to its end.
served_signup_request(r, name, e) ==
    /\ seed_pc = "idle"
    /\ signup_request(r, name, e)

served_signup_update(r) ==
    /\ seed_pc = "idle"
    /\ signup_update(r)

served_handler_return(r) ==
    /\ seed_pc = "idle"
    /\ handler_return(r)

NextReseed ==
    \/ \E r \in Requests, name \in ActivityNames, e \in Emails :
          served_signup_request(r, name, e)
    \/ \E r \in Requests : served_signup_update(r)
    \/ \E r \in Requests : served_handler_return(r)
    \/ seed_start
    \/ seed_drop
    \/ seed_insert
    \/ seed_create_index

SpecReseed == Init /\ [][NextReseed]_vars

(***************************************************************************)
(* Filling an activity: the members of the first five clubs of the dataset *)
(* sign up for Math Olympiad, the activity with the smallest               *)
(* max_participants, and for Chess Club, each one once those before it (in *)
(* dataset order) are in the list, one request at a time.                  *)
(***************************************************************************)
Applicants ==
    activities["Chess Club"].participants \o
    activities["Programming Class"].participants \o
    activities["Gym Class"].participants \o
    activities["Soccer Team"].participants \o
    activities["Basketball Club"].participants

InTurn(name, k) ==
    \A j \in 1..(k - 1) : IsParticipant(Applicants[j], find_one(name))

applicant_signup(r, name, k) ==
    /\ \A q \in Requests \ {r} : pc[q] = "idle"
    /\ InTurn(name, k)
    /\ signup_find(r, name, Applicants[k])

NextCapacity ==
    \/ \E r \in Requests, name \in {"Math Olympiad", "Chess Club"},
          k \in 1..Len(Applicants) : applicant_signup(r, name, k)
    \/ \E r \in Requests : signup_update(r)
    \/ \E r \in Requests : handler_return(r)

SpecCapacity == Init /\ [][NextCapacity]_vars

(***************************************************************************)
(* Two unregister requests and nothing else: each slot takes one request,  *)
(* by any interleaving of the two reads and the two writes.                *)
(***************************************************************************)
\* The emails of the unregister requests: those of the other requests and two
\* more members of the seeded lists.
Members == Emails \cup {"daniel@mergington.edu", "emma@mergington.edu"}

NextUnregisters ==
    \/ \E r \in Requests, name \in ActivityNames, e \in Members : unregister_find(r, name, e)
    \/ \E r \in Requests : unregister_update(r)

SpecUnregisters == Init /\ [][NextUnregisters]_vars

(***************************************************************************)
(* Vocabulary of the properties.                                           *)
(***************************************************************************)
\* The stored participant list of the activity called name.
Participants(name) == (CHOOSE d \in db : d.name = name).participants

\* How many times e occurs in a list.
Count(e, list) == Cardinality({i \in 1..Len(list) : list[i] = e})

NoDuplicates(list) ==
    \A i, j \in 1..Len(list) : i # j => list[i] # list[j]

\* list with its i-th entry deleted.
Without(list, i) == SubSeq(list, 1, i - 1) \o SubSeq(list, i + 1, Len(list))

\* Request r takes its update step, and the stored document is still the one
\* its find_one returned: nothing another request did in between shows.
UpdatesUndisturbed(r, endpoint) ==
    /\ pc[r] = "update"
    /\ op[r] = endpoint
    /\ pc'[r] = "done"
    /\ find_one(activity_name[r]) = activity[r]

\* Request r arrives at the endpoint and does its read in this step.
Arrives(r, endpoint) ==
    /\ pc[r] = "idle"
    /\ pc'[r] # "idle"
    /\ op'[r] = endpoint

(***************************************************************************)
(* C1: in every reachable state, under every interleaving of the read and  *)
(* write steps of sign-up and unregister requests, no email appears more   *)
(* than once in any activity's participant list.                           *)
(***************************************************************************)
C1_NoDuplicateParticipants ==
    \A d \in db : NoDuplicates(d.participants)

(***************************************************************************)
(* C2: a sign-up of an email absent from the list, with nothing of another *)
(* request between its read and its write, answers 200 and leaves the list *)
(* it read with the email appended: the email once, every earlier entry at *)
(* its position.                                                           *)
(***************************************************************************)
C2_SignupAppends ==
    [][\A r \in Requests :
         UpdatesUndisturbed(r, "signup") =>
           LET before == activity[r].participants
               after == Participants(activity_name[r])'
           IN  /\ status'[r] = 200
               /\ after = Append(before, email[r])
               /\ Count(email[r], after) = 1
               /\ \A i \in 1..Len(before) : after[i] = before[i]]_vars

C2_Witness ==
    \E r \in Requests :
      /\ pc[r] = "done" /\ op[r] = "signup" /\ status[r] = 200
      /\ Len(activity[r].participants) > 0
      /\ Participants(activity_name[r]) = Append(activity[r].participants, email[r])

(***************************************************************************)
(* C3: a sign-up whose read finds the email in the list answers 400, goes  *)
(* on to no update and leaves every document as it was.                    *)
(***************************************************************************)
C3_SignupConflict ==
    [][\A r \in Requests :
         (/\ Arrives(r, "signup")
          /\ find_one(activity_name'[r]) # None
          /\ IsParticipant(email'[r], find_one(activity_name'[r])))
         => /\ status'[r] = 400
            /\ pc'[r] = "done"
            /\ result'[r] = None
            /\ db' = db]_vars

C3_Witness ==
    \E r \in Requests :
      /\ pc[r] = "done" /\ op[r] = "signup" /\ status[r] = 400
      /\ IsParticipant(email[r], activity[r])
      /\ result[r] = None

(***************************************************************************)
(* C4: for a name that matches no document, sign-up and unregister both    *)
(* answer 404 "Activity not found" whatever the email, go on to no update  *)
(* and modify no document.                                                 *)
(***************************************************************************)
C4_NotFound ==
    [][\A r \in Requests :
         (/\ Arrives(r, "signup") \/ Arrives(r, "unregister")
          /\ ~ \E d \in db : d.name = activity_name'[r])
         => /\ status'[r] = 404
            /\ body'[r] = [detail |-> "Activity not found"]
            /\ pc'[r] = "done"
            /\ result'[r] = None
            /\ db' = db]_vars

C4_Witness ==
    \E r, q \in Requests :
      /\ pc[r] = "done" /\ op[r] = "signup" /\ status[r] = 404
      /\ pc[q] = "done" /\ op[q] = "unregister" /\ status[q] = 404
      /\ email[r] # email[q]
      /\ activity_name[r] = "Knitting Circle" /\ activity_name[q] = "Knitting Circle"

(***************************************************************************)
(* C5: an unregister of an email present in a duplicate-free list, with    *)
(* nothing of another request between its read and its write, answers 200  *)
(* and leaves the list it read with the one occurrence of the email        *)
(* deleted, the other entries in their order.                              *)
(***************************************************************************)
C5_UnregisterRemoves ==
    [][\A r \in Requests :
         (UpdatesUndisturbed(r, "unregister") /\ NoDuplicates(activity[r].participants)) =>
           LET before == activity[r].participants
               after == Participants(activity_name[r])'
           IN  /\ status'[r] = 200
               /\ \E i \in 1..Len(before) :
                    before[i] = email[r] /\ after = Without(before, i)]_vars

C5_Witness ==
    \E r \in Requests :
      /\ pc[r] = "done" /\ op[r] = "unregister" /\ status[r] = 200
      /\ NoDuplicates(activity[r].participants)
      /\ Len(activity[r].participants) >= 3
      /\ activity[r].participants[2] = email[r]
      /\ Participants(activity_name[r]) = Without(activity[r].participants, 2)

(***************************************************************************)
(* C6: an unregister whose read does not find the email in the list        *)
(* answers 400 "not registered", goes on to no update and leaves every     *)
(* document as it was.                                                     *)
(***************************************************************************)
C6_UnregisterNotRegistered ==
    [][\A r \in Requests :
         (/\ Arrives(r, "unregister")
          /\ find_one(activity_name'[r]) # None
          /\ ~IsParticipant(email'[r], find_one(activity_name'[r])))
         => /\ status'[r] = 400
            /\ body'[r] = [detail |-> "Student is not registered for this activity"]
            /\ pc'[r] = "done"
            /\ result'[r] = None
            /\ db' = db]_vars

C6_Witness ==
    \E r \in Requests :
      /\ pc[r] = "done" /\ op[r] = "unregister" /\ status[r] = 400
      /\ ~IsParticipant(email[r], activity[r])
      /\ result[r] = None

(***************************************************************************)
(* C7: round trip.  A sign-up of an absent email that read the list L and  *)
(* answered 200, then an unregister of the same email that read L with the *)
(* email appended and writes with nothing in between: the unregister       *)
(* answers 200 and the list is L again, same entries in the same order.    *)
(***************************************************************************)
C7_RoundTrip ==
    [][\A r1, r2 \in Requests :
         (/\ r1 # r2
          /\ pc[r1] = "done" /\ op[r1] = "signup" /\ status[r1] = 200
          /\ UpdatesUndisturbed(r2, "unregister")
          /\ activity_name[r2] = activity_name[r1]
          /\ email[r2] = email[r1]
          /\ activity[r2].participants = Append(activity[r1].participants, email[r1]))
         => /\ status'[r2] = 200
            /\ Participants(activity_name[r1])' = activity[r1].participants]_vars

C7_Witness ==
    \E r1, r2 \in Requests :
      /\ pc[r1] = "done" /\ op[r1] = "signup" /\ status[r1] = 200
      /\ pc[r2] = "done" /\ op[r2] = "unregister" /\ status[r2] = 200
      /\ activity_name[r2] = activity_name[r1]
      /\ email[r2] = email[r1]
      /\ activity[r2].participants = Append(activity[r1].participants, email[r1])
      /\ Len(activity[r1].participants) >= 2
      /\ Participants(activity_name[r1]) = activity[r1].participants

(***************************************************************************)
(* C8: two sign-ups for the same activity with different emails, neither   *)
(* in the list, under every interleaving of their reads and writes: both   *)
(* answer 200, each email is in the list once, and the list the activity   *)
(* had before is still its beginning (no update is lost).                  *)
(***************************************************************************)
C8_ConcurrentDistinctSignups ==
    \A r1, r2 \in Requests :
      (/\ r1 # r2
       /\ pc[r1] = "done" /\ op[r1] = "signup" /\ result[r1] # None
       /\ pc[r2] = "done" /\ op[r2] = "signup" /\ result[r2] # None
       /\ activity_name[r1] = activity_name[r2]
       /\ email[r1] # email[r2])
      => LET before == activities[activity_name[r1]].participants
             after == Participants(activity_name[r1])
         IN  /\ status[r1] = 200 /\ status[r2] = 200
             /\ Count(email[r1], after) = 1
             /\ Count(email[r2], after) = 1
             /\ Len(after) = Len(before) + 2
             /\ SubSeq(after, 1, Len(before)) = before

C8_Witness ==
    \E r1, r2 \in Requests :
      /\ pc[r1] = "done" /\ op[r1] = "signup" /\ status[r1] = 200
      /\ pc[r2] = "done" /\ op[r2] = "signup" /\ status[r2] = 200
      /\ activity_name[r1] = activity_name[r2]
      /\ email[r1] # email[r2]
      \* both reads came before both writes
      /\ activity[r1] = activity[r2]
      /\ Count(email[r1], Participants(activity_name[r1])) = 1
      /\ Count(email[r2], Participants(activity_name[r1])) = 1

(***************************************************************************)
(* C9: two sign-ups for the same activity and the same absent email that   *)
(* both pass the membership check before either writes: both writes modify *)
(* the document, both answer 200, and the email is in the list twice.      *)
(***************************************************************************)
C9_DuplicateSignupRace ==
    \A r1, r2 \in Requests :
      (/\ r1 # r2
       /\ pc[r1] = "done" /\ op[r1] = "signup" /\ result[r1] # None
       /\ pc[r2] = "done" /\ op[r2] = "signup" /\ result[r2] # None
       /\ activity_name[r1] = activity_name[r2]
       /\ email[r1] = email[r2])
      => /\ result[r1].modified_count = 1 /\ result[r2].modified_count = 1
         /\ status[r1] = 200 /\ status[r2] = 200
         /\ Count(email[r1], Participants(activity_name[r1])) = 2

C9_Witness ==
    \E r1, r2 \in Requests :
      /\ r1 # r2
      /\ pc[r1] = "done" /\ op[r1] = "signup" /\ status[r1] = 200
      /\ pc[r2] = "done" /\ op[r2] = "signup" /\ status[r2] = 200
      /\ activity_name[r1] = activity_name[r2]
      /\ email[r1] = email[r2]
      /\ ~IsParticipant(email[r1], activity[r1])
      /\ ~IsParticipant(email[r2], activity[r2])
      /\ Count(email[r1], Participants(activity_name[r1])) = 2

(***************************************************************************)
(* C10: frame.  No step of a list, sign-up or unregister request adds or   *)
(* removes a document or changes a name, description, schedule or          *)
(* max_participants; a participant list changes only in the update step of *)
(* a request for that very activity; the list operation changes nothing.   *)
(***************************************************************************)
C10_Frame ==
    [][/\ Cardinality(db') = Cardinality(db)
       /\ \A d \in db :
            \E d2 \in db' :
              /\ d2 = [d EXCEPT !.participants = d2.participants]
              /\ d2.participants # d.participants =>
                   \E r \in Requests :
                     /\ pc[r] = "update" /\ pc'[r] = "done"
                     /\ activity_name[r] = d.name
       /\ (\E r \in Requests : Arrives(r, "list")) => db' = db]_vars

C10_Witness ==
    \E r, q \in Requests :
      /\ pc[r] = "done" /\ op[r] = "list" /\ status[r] = 200
      /\ pc[q] = "done" /\ op[q] \in {"signup", "unregister"} /\ status[q] = 200
      /\ db # init_db
      /\ {d.name : d \in db} = {d.name : d \in init_db}

(***************************************************************************)
(* C11: the list operation answers 200 with a mapping whose keys are       *)
(* exactly the names of the documents stored at the time of the read, each *)
(* value holding that document's description, schedule, max_participants   *)
(* and participants as stored and no other field (no _id, no name); it is  *)
(* computed from the store at each request, so it shows every completed    *)
(* sign-up and unregister.                                                 *)
(***************************************************************************)
C11_Listing ==
    [][\A r \in Requests :
         Arrives(r, "list") =>
           /\ status'[r] = 200
           /\ DOMAIN body'[r] = {d.name : d \in db}
           /\ \A d \in db :
                LET value == body'[r][d.name]
                IN  /\ DOMAIN value =
                         {"description", "schedule", "max_participants", "participants"}
                    /\ value.description = d.description
                    /\ value.schedule = d.schedule
                    /\ value.max_participants = d.max_participants
                    /\ value.participants = d.participants]_vars

C11_Witness ==
    \E r, q \in Requests :
      /\ pc[r] = "done" /\ op[r] = "list" /\ status[r] = 200
      /\ pc[q] = "done" /\ op[q] = "signup" /\ status[q] = 200
      /\ activity_name[q] = "Chess Club"
      /\ body[r]["Chess Club"].participants = Participants("Chess Club")
      /\ body[r]["Chess Club"].participants # activities["Chess Club"].participants
      /\ IsParticipant(email[q], body[r]["Chess Club"])

(***************************************************************************)
(* C13: a sign-up or unregister request reads once (changing nothing),     *)
(* then either answers 400 or 404 without a write, or issues one           *)
(* update_one and answers at once: 200 when modified_count is 1, 500 when  *)
(* it is 0.  After the answer the request touches the store no more.       *)
(***************************************************************************)
C13_RequestOutcome ==
    [][\A r \in Requests :
         /\ (Arrives(r, "signup") \/ Arrives(r, "unregister")) =>
              /\ db' = db
              /\ result'[r] = None
              /\ pc'[r] = "done" => status'[r] \in {400, 404}
              /\ pc'[r] # "done" => pc'[r] = "update" /\ status'[r] = 0
         /\ (pc[r] = "update" /\ pc'[r] # "update") =>
              /\ pc'[r] = "done"
              /\ result[r] = None
              /\ result'[r] # None
              /\ result'[r].modified_count \in {0, 1}
              /\ result'[r].modified_count = 1 => status'[r] = 200 /\ db' # db
              /\ result'[r].modified_count = 0 => status'[r] = 500 /\ db' = db
         /\ (pc[r] = "done" /\ op[r] \in {"signup", "unregister"}) =>
              /\ status[r] \in {200, 400, 404, 500}
              /\ \/ pc'[r] = "done" /\ status'[r] = status[r] /\ result'[r] = result[r]
                 \/ pc'[r] = "idle" /\ db' = db]_vars

C13_Witness ==
    \E r, q \in Requests :
      /\ pc[r] = "done" /\ op[r] = "unregister" /\ status[r] = 500
      /\ result[r] = [modified_count |-> 0]
      /\ pc[q] = "done" /\ op[q] = "unregister" /\ status[q] = 200
      /\ result[q] = [modified_count |-> 1]

C17_ConcurrentUnregisters ==
    \A r1, r2 \in Requests :
      (/\ r1 # r2
       /\ pc[r1] = "done" /\ op[r1] = "unregister"
       /\ pc[r2] = "done" /\ op[r2] = "unregister"
       /\ activity_name[r1] = activity_name[r2]
       /\ email[r1] = email[r2]
       /\ activity_name[r1] \in DOMAIN activities
       /\ Count(email[r1], activities[activity_name[r1]].participants) = 1)
      => LET before == activities[activity_name[r1]].participants
             after == Participants(activity_name[r1])
             e == email[r1]
         IN  /\ \/ status[r1] = 200 /\ status[r2] \in {400, 500}
                \/ status[r2] = 200 /\ status[r1] \in {400, 500}
             /\ \A r \in {r1, r2} :
                  /\ status[r] = 400 <=> ~IsParticipant(e, activity[r])
                  /\ status[r] = 400 => result[r] = None
                  /\ status[r] = 500 =>
                       /\ IsParticipant(e, activity[r1])
                       /\ IsParticipant(e, activity[r2])
                       /\ result[r] = [modified_count |-> 0]
             /\ Count(e, after) = 0
             /\ \E i \in 1..Len(before) : before[i] = e /\ after = Without(before, i)

C17_Witness ==
    \E r1, r2 \in Requests :
      /\ pc[r1] = "done" /\ op[r1] = "unregister" /\ status[r1] = 200
      /\ pc[r2] = "done" /\ op[r2] = "unregister" /\ status[r2] = 500
      /\ activity_name[r1] = activity_name[r2]
      /\ email[r1] = email[r2]
      /\ activity[r1] = activity[r2]
      /\ ~IsParticipant(email[r1], find_one(activity_name[r1]))

(***************************************************************************)
(* C12: capacity is not enforced.  A sign-up of an email absent from the   *)
(* list goes on to its write whatever the length of the list and whatever  *)
(* max_participants is, and undisturbed it answers 200 and appends, also   *)
(* when the list already holds max_participants entries or more; lists     *)
(* longer than max_participants are reached.                               *)
(***************************************************************************)
C12_CapacityNotEnforced ==
    [][\A r \in Requests :
         /\ (/\ Arrives(r, "signup")
             /\ find_one(activity_name'[r]) # None
             /\ ~IsParticipant(email'[r], find_one(activity_name'[r])))
            => pc'[r] = "update" /\ status'[r] = 0
         /\ UpdatesUndisturbed(r, "signup") =>
              /\ status'[r] = 200
              /\ Participants(activity_name[r])' =
                   Append(activity[r].participants, email[r])
              /\ find_one(activity_name[r])'.max_participants =
                   activity[r].max_participants]_vars

C12_Witness ==
    \E r \in Requests :
      /\ pc[r] = "done" /\ op[r] = "signup" /\ status[r] = 200
      /\ Len(activity[r].participants) >= activity[r].max_participants
      /\ Participants(activity_name[r]) = Append(activity[r].participants, email[r])
      /\ Len(Participants(activity_name[r])) > find_one(activity_name[r]).max_participants

(***************************************************************************)
(* C15: seeding.  Whatever the collection held when init_db was started,   *)
(* when it has run to its end, with no request step during the run, the    *)
(* collection holds exactly the nine activities of the dataset, their      *)
(* names pairwise distinct, each with its fields of the dataset and its    *)
(* two initial participants (no duplicate, fewer than max_participants).   *)
(* That is the content the first run left (only the _id values are new):   *)
(* a second run yields the same, whatever enrollment came in between.      *)
(***************************************************************************)
\* The documents without their _id.
Content(docs) == {[f \in DOMAIN d \ {"_id"} |-> d[f]] : d \in docs}

C15_Seeding ==
    [][(seed_pc = "index" /\ seed_pc' # "index") =>
         /\ seed_pc' = "idle"
         /\ name_index'
         /\ Cardinality(db') = 9
         /\ {d.name : d \in db'} = DOMAIN activities
         /\ \A d1, d2 \in db' : d1.name = d2.name => d1 = d2
         /\ \A d \in db' :
              /\ d.description = activities[d.name].description
              /\ d.schedule = activities[d.name].schedule
              /\ d.max_participants = activities[d.name].max_participants
              /\ d.participants = activities[d.name].participants
              /\ Len(d.participants) = 2
              /\ NoDuplicates(d.participants)
              /\ Len(d.participants) < d.max_participants
         /\ Content(db') = Content(init_db)]_vars

C15_Witness ==
    /\ seed_pc = "idle"
    /\ seed_runs >= 1
    /\ Content(db) = Content(init_db)
    /\ db # init_db
    /\ \E q \in Requests :
         /\ pc[q] = "done" /\ op[q] = "signup" /\ status[q] = 200
         /\ find_one(activity_name[q]) # None
         /\ ~IsParticipant(email[q], find_one(activity_name[q]))

(***************************************************************************)
(* C16: the update step of a sign-up answers 200 with modified_count 1     *)
(* whenever a document of that name is stored at that moment, also when    *)
(* the list already holds the email (another sign-up of it came first).    *)
(* It answers 500 only when its read found the activity and no document of *)
(* that name is stored any more, which happens only once init_db has been  *)
(* started again.                                                          *)
(***************************************************************************)
C16_SignupServerError ==
    [][\A r \in Requests :
         (pc[r] = "update" /\ op[r] = "signup" /\ pc'[r] = "done") =>
           /\ (\E d \in db : d.name = activity_name[r]) =>
                /\ status'[r] = 200
                /\ result'[r] = [modified_count |-> 1]
           /\ status'[r] \in {200, 500}
           /\ status'[r] = 500 =>
                /\ activity[r] # None
                /\ activity[r].name = activity_name[r]
                /\ ~ \E d \in db : d.name = activity_name[r]
                /\ seed_runs > 0
                /\ db' = db]_vars

C16_Witness ==
    \E r \in Requests :
      /\ pc[r] = "done" /\ op[r] = "signup" /\ status[r] = 500
      /\ activity[r] # None
      /\ result[r] = [modified_count |-> 0]
      /\ seed_runs > 0

====
